---- MODULE Spec2Model ----
(***************************************************************************)
(* Workflow execution engine (WorkflowEngine.execute and its helpers) and  *)
(* the persistence operations it calls (Database.createExecution,          *)
(* updateExecution, createExecutionStep, updateExecutionStep).             *)
(*                                                                         *)
(* A JavaScript value is a tagged record.  A string is a sequence of       *)
(* one-character strings, so that the resolver's scanner is modelled       *)
(* character by character.                                                 *)
(***************************************************************************)
EXTENDS Integers, Sequences, FiniteSets, TLC

(* ----------------------------------------------------------------------- *)
(* Bounds                                                                  *)
(* ----------------------------------------------------------------------- *)

\* longest action sequence of a workflow
MaxActions == 3

\* number of execute invocations the state has room for
NumRuns == 2

Runs == 1..NumRuns

(* ----------------------------------------------------------------------- *)
(* JavaScript values                                                       *)
(* ----------------------------------------------------------------------- *)

Undefined == [t |-> "undefined"]

Null == [t |-> "null"]

Bool(b) == [t |-> "boolean", v |-> b]

Num(n) == [t |-> "number", v |-> n]

Str(s) == [t |-> "string", v |-> s]

Arr(a) == [t |-> "array", v |-> a]

\* an object keeps its keys in insertion order: k[i] is the i-th key, v[i] its value
Obj(keys, vals) == [t |-> "object", k |-> keys, v |-> vals]

EmptyObj == Obj(<<>>, <<>>)

\* JavaScript truthiness of a value (!!x)
Truthy(x) ==
    CASE x.t = "undefined" -> FALSE
      [] x.t = "null" -> FALSE
      [] x.t = "boolean" -> x.v
      [] x.t = "number" -> x.v # 0
      [] x.t = "string" -> x.v # <<>>
      [] OTHER -> TRUE

\* a || b
OrElse(a, b) == IF Truthy(a) THEN a ELSE b

\* index of key in the key list of an object, 0 when it is not an own key
KeyIndex(keys, key) ==
    IF \E i \in 1..Len(keys) : keys[i] = key
    THEN CHOOSE i \in 1..Len(keys) : keys[i] = key
    ELSE 0

\* obj[key] = val on a plain object: overwrite in place, or append a new key
SetProp(o, key, val) ==
    IF KeyIndex(o.k, key) # 0
    THEN Obj(o.k, [o.v EXCEPT ![KeyIndex(o.k, key)] = val])
    ELSE Obj(Append(o.k, key), Append(o.v, val))

\* the decimal digits of a small array index
DigitIndex(key) ==
    IF key = <<"0">> THEN 0
    ELSE IF key = <<"1">> THEN 1
    ELSE IF key = <<"2">> THEN 2
    ELSE -1

S_length == <<"l", "e", "n", "g", "t", "h">>

\* current[key] for a truthy current: own keys of objects, indices and length
\* of arrays and strings, nothing on numbers and booleans
GetProp(x, key) ==
    CASE x.t = "object" ->
            IF KeyIndex(x.k, key) # 0 THEN x.v[KeyIndex(x.k, key)] ELSE Undefined
      [] x.t = "array" ->
            IF key = S_length THEN Num(Len(x.v))
            ELSE IF DigitIndex(key) >= 0 /\ DigitIndex(key) < Len(x.v)
                 THEN x.v[DigitIndex(key) + 1]
                 ELSE Undefined
      [] x.t = "string" ->
            IF key = S_length THEN Num(Len(x.v))
            ELSE IF DigitIndex(key) >= 0 /\ DigitIndex(key) < Len(x.v)
                 THEN Str(<<x.v[DigitIndex(key) + 1]>>)
                 ELSE Undefined
      [] OTHER -> Undefined

RECURSIVE Digits(_)
\* the decimal digits of a non-negative integer
Digits(n) ==
    LET d == <<"0", "1", "2", "3", "4", "5", "6", "7", "8", "9">>
    IN IF n < 10 THEN <<d[n + 1]>> ELSE Digits(n \div 10) \o <<d[(n % 10) + 1]>>

RECURSIVE ToStr(_)
RECURSIVE JoinStr(_)

\* elements of an array joined with ",", null and undefined as the empty string
JoinStr(a) ==
    IF a = <<>> THEN <<>>
    ELSE LET h == IF Head(a).t \in {"null", "undefined"} THEN <<>> ELSE ToStr(Head(a))
         IN IF Len(a) = 1 THEN h ELSE h \o <<",">> \o JoinStr(Tail(a))

\* String(x): the string form String.prototype.replace gives a replacement value
ToStr(x) ==
    CASE x.t = "string" -> x.v
      [] x.t = "number" -> Digits(x.v)
      [] x.t = "boolean" ->
            IF x.v THEN <<"t", "r", "u", "e">> ELSE <<"f", "a", "l", "s", "e">>
      [] x.t = "null" -> <<"n", "u", "l", "l">>
      [] x.t = "undefined" -> <<"u", "n", "d", "e", "f", "i", "n", "e", "d">>
      [] x.t = "array" -> JoinStr(x.v)
      [] OTHER -> <<"[", "o", "b", "j", "e", "c", "t", " ",
                    "O", "b", "j", "e", "c", "t", "]">>

(* ----------------------------------------------------------------------- *)
(* JSON.stringify                                                          *)
(* ----------------------------------------------------------------------- *)

RECURSIVE ToJSON(_)
RECURSIVE ToJSONProps(_, _, _)

\* the members of an object that JSON.stringify writes: undefined ones are dropped
ToJSONProps(keys, vals, i) ==
    IF i > Len(keys) THEN EmptyObj
    ELSE LET rest == ToJSONProps(keys, vals, i + 1)
         IN IF vals[i].t = "undefined" THEN rest
            ELSE Obj(<<keys[i]>> \o rest.k, <<ToJSON(vals[i])>> \o rest.v)

\* the value a JSON text denotes after JSON.stringify wrote x (x not undefined)
ToJSON(x) ==
    CASE x.t = "array" ->
            Arr([i \in 1..Len(x.v) |->
                    IF x.v[i].t = "undefined" THEN Null ELSE ToJSON(x.v[i])])
      [] x.t = "object" -> ToJSONProps(x.k, x.v, 1)
      [] OTHER -> x

\* JSON.stringify(x): a text, named by the value it denotes; undefined for undefined
JSONstringify(x) ==
    IF x.t = "undefined" THEN Undefined ELSE [t |-> "json", v |-> ToJSON(x)]

(* ----------------------------------------------------------------------- *)
(* Variable resolver                                                       *)
(* ----------------------------------------------------------------------- *)

RECURSIVE TrimStart(_)
\* leading blanks removed
TrimStart(s) == IF s # <<>> /\ Head(s) = " " THEN TrimStart(Tail(s)) ELSE s

RECURSIVE TrimEnd(_)
\* trailing blanks removed
TrimEnd(s) ==
    IF s # <<>> /\ s[Len(s)] = " " THEN TrimEnd(SubSeq(s, 1, Len(s) - 1)) ELSE s

\* path.trim()
Trim(s) == TrimEnd(TrimStart(s))

RECURSIVE SplitDots(_, _)
\* path.split('.'): cur is the segment being read; empty segments are kept
SplitDots(s, cur) ==
    IF s = <<>> THEN <<cur>>
    ELSE IF Head(s) = "." THEN <<cur>> \o SplitDots(Tail(s), <<>>)
    ELSE SplitDots(Tail(s), Append(cur, Head(s)))

\* NestedStep as it would be if the step tested the member for truthiness
\* (current && current[key] ? current[key] : undefined)
NestedStepFalsy(current, key) ==
    IF Truthy(current) /\ Truthy(GetProp(current, key))
    THEN GetProp(current, key)
    ELSE Undefined

\* one step of the reduce: current && current[key] !== undefined ? current[key] : undefined
NestedStep(current, key) ==
    IF Truthy(current) /\ GetProp(current, key) # Undefined
    THEN GetProp(current, key)
    ELSE Undefined

RECURSIVE NestedWalk(_, _)
\* the reduce over the segments, starting at current
NestedWalk(current, segs) ==
    IF segs = <<>> THEN current
    ELSE NestedWalk(NestedStep(current, Head(segs)), Tail(segs))

\* getNestedValue(obj, path)
getNestedValue(obj, path) == NestedWalk(obj, SplitDots(path, <<>>))

RECURSIVE FirstClose(_, _)
\* the first position >= q of s holding "}", 0 when there is none
FirstClose(s, q) ==
    IF q > Len(s) THEN 0
    ELSE IF s[q] = "}" THEN q
    ELSE FirstClose(s, q + 1)

\* /\{\{([^}]+)\}\}/ anchored at p: the position of the first closing brace
\* of the match, 0 when the pattern does not match at p
MatchAt(s, p) ==
    IF p + 1 <= Len(s) /\ s[p] = "{" /\ s[p + 1] = "{"
    THEN LET q == FirstClose(s, p + 2)
         IN IF q > p + 2 /\ q + 1 <= Len(s) /\ s[q + 1] = "}" THEN q ELSE 0
    ELSE 0

RECURSIVE SubstituteFrom(_, _, _)
\* str.replace(/\{\{([^}]+)\}\}/g, callback) from position p on
SubstituteFrom(s, p, context) ==
    IF p > Len(s) THEN <<>>
    ELSE IF MatchAt(s, p) # 0
    THEN LET q == MatchAt(s, p)
             match == SubSeq(s, p, q + 1)
             path == SubSeq(s, p + 2, q - 1)
             value == getNestedValue(context, Trim(path))
         IN (IF value # Undefined THEN ToStr(value) ELSE match)
                \o SubstituteFrom(s, q + 2, context)
    ELSE <<s[p]>> \o SubstituteFrom(s, p + 1, context)

RECURSIVE SubstituteSingleFrom(_, _, _)
\* SubstituteFrom as it would be if the pattern had single braces, /\{([^}]+)\}/g
SubstituteSingleFrom(s, p, context) ==
    IF p > Len(s) THEN <<>>
    ELSE IF s[p] = "{" /\ FirstClose(s, p + 1) > p + 1
    THEN LET q == FirstClose(s, p + 1)
             value == getNestedValue(context, Trim(SubSeq(s, p + 1, q - 1)))
         IN (IF value # Undefined THEN ToStr(value) ELSE SubSeq(s, p, q))
                \o SubstituteSingleFrom(s, q + 1, context)
    ELSE <<s[p]>> \o SubstituteSingleFrom(s, p + 1, context)

\* substituteString as it would be if the pattern had single braces
substituteSingleBraces(str, context) == SubstituteSingleFrom(str, 1, context)

\* substituteString(str, context)
substituteString(str, context) == SubstituteFrom(str, 1, context)

\* resolveVariables as it would be if it substituted the keys of an object as
\* well as its string members, one level deep
resolveKeysToo(config, context) ==
    CASE config.t = "string" -> Str(substituteString(config.v, context))
      [] config.t = "object" ->
            Obj([i \in 1..Len(config.k) |-> substituteString(config.k[i], context)],
                [i \in 1..Len(config.v) |->
                    IF config.v[i].t = "string"
                    THEN Str(substituteString(config.v[i].v, context))
                    ELSE config.v[i]])
      [] OTHER -> config

RECURSIVE resolveVariables(_, _)
\* resolveVariables(config, context)
resolveVariables(config, context) ==
    CASE config.t = "string" -> Str(substituteString(config.v, context))
      [] config.t = "array" ->
            Arr([i \in 1..Len(config.v) |-> resolveVariables(config.v[i], context)])
      [] config.t = "object" ->
            Obj(config.k,
                [i \in 1..Len(config.v) |-> resolveVariables(config.v[i], context)])
      [] OTHER -> config

(* ----------------------------------------------------------------------- *)
(* String literals of the source                                           *)
(* ----------------------------------------------------------------------- *)

S_trigger == <<"t", "r", "i", "g", "g", "e", "r">>

S_workflow == <<"w", "o", "r", "k", "f", "l", "o", "w">>

S_now == <<"n", "o", "w">>

S_executionId == <<"e", "x", "e", "c", "u", "t", "i", "o", "n", "I", "d">>

S_id == <<"i", "d">>

S_name == <<"n", "a", "m", "e">>

S_step == <<"s", "t", "e", "p">>

S_status == <<"s", "t", "a", "t", "u", "s">>

S_output == <<"o", "u", "t", "p", "u", "t">>

S_error == <<"e", "r", "r", "o", "r">>

S_message == <<"m", "e", "s", "s", "a", "g", "e">>

S_running == <<"r", "u", "n", "n", "i", "n", "g">>

S_completed == <<"c", "o", "m", "p", "l", "e", "t", "e", "d">>

S_failed == <<"f", "a", "i", "l", "e", "d">>

S_http == <<"h", "t", "t", "p">>

S_log == <<"l", "o", "g">>

S_nonexistent == <<"n", "o", "n", "e", "x", "i", "s", "t", "e", "n", "t">>

S_out == <<"o", "u", "t">>

S_unknown_action_type == <<"U", "n", "k", "n", "o", "w", "n", " ", "a", "c", "t", "i", "o", "n", " ", "t", "y", "p", "e", ":", " ">>

S_cannot_read == <<"C", "a", "n", "n", "o", "t", " ", "r", "e", "a", "d", " ", "p", "r", "o", "p", "e", "r", "t", "i", "e", "s", " ", "o", "f", " ">>

S_reading_message == <<" ", "(", "r", "e", "a", "d", "i", "n", "g", " ", "'", "m", "e", "s", "s", "a", "g", "e", "'", ")">>


(* ----------------------------------------------------------------------- *)
(* Database (table rows; a TEXT column holding JSON is a "json" value,     *)
(* an SQL NULL is Null)                                                    *)
(* ----------------------------------------------------------------------- *)

\* new Date().toISOString() and CURRENT_TIMESTAMP: the clock is not modelled
Timestamp == Str(<<"T">>)

\* the row INSERT INTO executions (id, workflow_id, status, trigger_data) writes
ExecutionRow(execution) ==
    [id |-> execution.id,
     workflow_id |-> execution.workflow_id,
     status |-> execution.status,
     trigger_data |-> JSONstringify(OrElse(execution.trigger_data, EmptyObj)),
     execution_log |-> Null,
     error_message |-> Null,
     completed_at |-> Null]

\* Database.createExecution(execution): the table after the insert
createExecution(table, execution) ==
    [x \in (DOMAIN table) \cup {execution.id} |->
        IF x = execution.id THEN ExecutionRow(execution) ELSE table[x]]

\* the row of Database.updateExecution after its UPDATE: a column is set only
\* when the update's value is truthy
UpdatedExecutionRow(row, updates) ==
    [row EXCEPT
        !.status = IF Truthy(updates.status) THEN updates.status ELSE @,
        !.execution_log =
            IF Truthy(updates.execution_log)
            THEN JSONstringify(updates.execution_log) ELSE @,
        !.error_message =
            IF Truthy(updates.error_message) THEN updates.error_message ELSE @,
        !.completed_at =
            IF Truthy(updates.completed_at) THEN updates.completed_at ELSE @]

\* Database.updateExecution(id, updates): the table after UPDATE ... WHERE id = ?
updateExecution(table, id, updates) ==
    [x \in DOMAIN table |->
        IF x = id THEN UpdatedExecutionRow(table[x], updates) ELSE table[x]]

\* the row INSERT INTO execution_steps writes
StepRow(step) ==
    [execution_id |-> step.execution_id,
     step_id |-> step.step_id,
     step_type |-> step.step_type,
     status |-> step.status,
     input_data |-> JSONstringify(OrElse(step.input_data, EmptyObj)),
     output_data |-> Null,
     error_message |-> Null,
     completed_at |-> Null]

\* Database.createExecutionStep(step): the table after the insert; the row id
\* (AUTOINCREMENT, result.lastID) is the new row's position
createExecutionStep(table, step) == Append(table, StepRow(step))

\* the row of Database.updateExecutionStep after its UPDATE
UpdatedStepRow(row, updates) ==
    [row EXCEPT
        !.status = updates.status,
        !.output_data = JSONstringify(OrElse(updates.output_data, EmptyObj)),
        !.error_message = OrElse(updates.error_message, Null),
        !.completed_at = Timestamp]

\* updateExecutionStep as it would be if it addressed the row inserted last
\* instead of the row with the given id
updateLastExecutionStep(table, id, updates) ==
    [x \in DOMAIN table |->
        IF x = Len(table) THEN UpdatedStepRow(table[x], updates) ELSE table[x]]

\* Database.updateExecutionStep(id, updates): the table after UPDATE ... WHERE id = ?
updateExecutionStep(table, id, updates) ==
    [x \in DOMAIN table |->
        IF x = id THEN UpdatedStepRow(table[x], updates) ELSE table[x]]

(* ----------------------------------------------------------------------- *)
(* Inputs: workflows, trigger inputs, handler registry, handler outcomes   *)
(* ----------------------------------------------------------------------- *)

\* new Error(message)
Error(message) == [t |-> "error", message |-> message]

\* the actions workflows are built from
ActionA ==
    [id |-> Str(<<"a">>), type |-> Str(S_http),
     config |-> Obj(<<<<"u">>>>, <<Str(<<"{", "{">> \o S_trigger \o <<".", "n", "}", "}">>)>>),
     output |-> Str(S_out)]

ActionB ==
    [id |-> Str(<<"b">>), type |-> Str(S_log),
     config |-> Str(<<"{", "{", " ">> \o S_out \o <<" ", "}", "}", "!">>),
     output |-> Undefined]

ActionC ==
    [id |-> Str(<<"c">>), type |-> Str(S_nonexistent),
     config |-> EmptyObj,
     output |-> Undefined]

ActionD ==
    [id |-> Str(<<"d">>), type |-> Str(S_http),
     config |-> Num(0),
     output |-> Str(S_trigger)]

ActionPool == {ActionA, ActionB, ActionC, ActionD}

Workflows ==
    {[id |-> Str(<<"w">>), name |-> Str(<<"W">>), actions |-> as] :
        as \in UNION {[1..n -> ActionPool] : n \in 0..MaxActions}}

\* the caller's trigger data; undefined is an omitted argument
TriggerInputs == {Undefined, Obj(<<<<"n">>>>, <<Str(<<"J">>)>>)}

\* the types the handler registry knows
RegisteredTypes == {Str(S_http), Str(S_log)}

\* ActionHandlers.getHandler(type): is a handler registered for the type
getHandler(type) == type \in RegisteredTypes

\* what a handler may resolve with
HandlerResults == {Str(<<"r">>), Num(0)}

\* what a handler may reject with: errors with a message (one empty), a thrown
\* string (it has no message), and undefined (a promise rejected with no reason)
HandlerThrows == {Error(Str(<<"E">>)), Error(Str(<<>>)), Str(<<"s">>), Undefined}

\* reading error.message raises a TypeError: null and undefined have no properties
HasNoProperties(error) == error.t \in {"undefined", "null"}

\* error.message
errorMessage(error) ==
    IF error.t = "error" THEN error.message ELSE GetProp(error, S_message)

\* the TypeError raised by reading .message of null or undefined
MessageTypeError(error) ==
    Error(Str(S_cannot_read \o ToStr(error) \o S_reading_message))

\* uuidv4(): a fresh identifier per invocation
uuidv4(r) == Str(<<"e">> \o Digits(r))

\* the context execute seeds a run with
SeedContext(wf, trig, executionId) ==
    Obj(<<S_trigger, S_workflow, S_now, S_executionId>>,
        <<trig,
          Obj(<<S_id, S_name>>, <<wf.id, wf.name>>),
          Timestamp,
          executionId>>)

\* StoreOutput as it would be without the test of action.output
StoreOutputAlways(ctx, action, res) == SetProp(ctx, ToStr(action.output), res)

\* if (action.output) context[action.output] = result
StoreOutput(ctx, action, res) ==
    IF Truthy(action.output) THEN SetProp(ctx, action.output.v, res) ELSE ctx

\* the log entry of a completed step
CompletedEntry(action, res) ==
    Obj(<<S_step, S_status, S_output>>, <<action.id, Str(S_completed), res>>)

\* the log entry of a failed step
FailedEntry(action, message) ==
    Obj(<<S_step, S_status, S_error>>, <<action.id, Str(S_failed), message>>)

\* executionLog.push(entry)
Push(log, entry) == Arr(Append(log.v, entry))

\* UnknownActionError as it would be with the type left out of the message
UnknownActionErrorNoType(type) == Error(Str(S_unknown_action_type))

\* executeAction's error for a type without handler
UnknownActionError(type) == Error(Str(S_unknown_action_type \o ToStr(type)))

(* ----------------------------------------------------------------------- *)
(* State                                                                   *)
(* ----------------------------------------------------------------------- *)

VARIABLES
    executions,       \* table executions: id -> row
    execution_steps,  \* table execution_steps: rows in id order, ids from 1
    pc,               \* per invocation of execute: where it stands
    workflow,         \* per invocation: its workflow argument
    triggerData,      \* per invocation: its triggerData argument (defaulted)
    context,          \* per invocation: the substitution context
    executionLog,     \* per invocation: the step log
    idx,              \* per invocation: the loop index i
    stepDbId,         \* per invocation: the id of the current step row
    resolvedConfig,   \* per invocation: the config handed to the current handler
    stepResult,       \* per invocation: the result of the current handler
    error,            \* per invocation: the value caught by a catch block
    returned,         \* per invocation: the value execute resolved with
    trace,            \* per invocation: what it did so far, in order (history)
    call              \* the last call of a synchronous method, with its result

vars == <<executions, execution_steps, pc, workflow, triggerData, context,
          executionLog, idx, stepDbId, resolvedConfig, stepResult, error,
          returned, trace, call>>

\* no synchronous method has been called yet
NoCall == [op |-> "none"]

\* a step of the history: e names the operation, i the action index (-1 for
\* the run as a whole), v the value handed over: the status written
\* (createExecution, createStep, updateStep, updateExecution), the resolved
\* config (resolve), the handler's type and argument (invoke), the type without
\* handler (unknown), the handler's result (return) or rejection (throw)
Event(e, i, v) == [e |-> e, i |-> i, v |-> v]

\* the action the loop of run r is at
CurrentAction(r) == workflow[r].actions[idx[r] + 1]

Init ==
    /\ executions = <<>>
    /\ execution_steps = <<>>
    /\ pc = [r \in Runs |-> "idle"]
    /\ workflow = [r \in Runs |-> Undefined]
    /\ triggerData = [r \in Runs |-> Undefined]
    /\ context = [r \in Runs |-> Undefined]
    /\ executionLog = [r \in Runs |-> Undefined]
    /\ idx = [r \in Runs |-> 0]
    /\ stepDbId = [r \in Runs |-> 0]
    /\ resolvedConfig = [r \in Runs |-> Undefined]
    /\ stepResult = [r \in Runs |-> Undefined]
    /\ error = [r \in Runs |-> Undefined]
    /\ returned = [r \in Runs |-> Undefined]
    /\ trace = [r \in Runs |-> <<>>]
    /\ call = NoCall

(* ----------------------------------------------------------------------- *)
(* execute, one action per stretch of code between two awaits              *)
(* ----------------------------------------------------------------------- *)

\* execute is called with a workflow of wfs: lines 22-37, up to the call of
\* db.createExecution
Start(r, wfs) ==
    /\ pc[r] = "idle"
    /\ \E wf \in wfs, t \in TriggerInputs :
        LET trig == IF t = Undefined THEN EmptyObj ELSE t
        IN /\ workflow' = [workflow EXCEPT ![r] = wf]
           /\ triggerData' = [triggerData EXCEPT ![r] = trig]
           /\ executions' = createExecution(executions,
                  [id |-> uuidv4(r), workflow_id |-> wf.id,
                   status |-> Str(S_running), trigger_data |-> trig])
    /\ pc' = [pc EXCEPT ![r] = "createExecution"]
    /\ trace' = [trace EXCEPT ![r] = Append(@, Event("createExecution", -1, Str(S_running)))]
    /\ UNCHANGED <<call, execution_steps, context, executionLog, idx, stepDbId,
                   resolvedConfig, stepResult, error, returned>>

\* execute is called with any workflow
Execute(r) == Start(r, Workflows)

\* createExecution resolved: lines 40-50, the context and the empty log
AfterCreateExecution(r) ==
    /\ pc[r] = "createExecution"
    /\ context' = [context EXCEPT ![r] = SeedContext(workflow[r], triggerData[r], uuidv4(r))]
    /\ executionLog' = [executionLog EXCEPT ![r] = Arr(<<>>)]
    /\ idx' = [idx EXCEPT ![r] = 0]
    /\ pc' = [pc EXCEPT ![r] = "loop"]
    /\ UNCHANGED <<call, executions, execution_steps, workflow, triggerData, stepDbId,
                   resolvedConfig, stepResult, error, returned, trace>>

\* the loop has an action left: lines 54-67, up to the call of createExecutionStep
StartStep(r) ==
    /\ pc[r] = "loop"
    /\ idx[r] < Len(workflow[r].actions)
    /\ execution_steps' = createExecutionStep(execution_steps,
            [execution_id |-> uuidv4(r),
             step_id |-> CurrentAction(r).id,
             step_type |-> CurrentAction(r).type,
             status |-> Str(S_running),
             input_data |-> CurrentAction(r).config])
    /\ stepDbId' = [stepDbId EXCEPT ![r] = Len(execution_steps')]
    /\ pc' = [pc EXCEPT ![r] = "createExecutionStep"]
    /\ trace' = [trace EXCEPT ![r] = Append(@, Event("createStep", idx[r], Str(S_running)))]
    /\ UNCHANGED <<call, executions, workflow, triggerData, context, executionLog, idx,
                   resolvedConfig, stepResult, error, returned>>

\* Dispatch as it would be if the handler were given the config as written
DispatchRawConfig(r) ==
    /\ pc[r] = "createExecutionStep"
    /\ LET config == CurrentAction(r).config
       IN /\ resolvedConfig' = [resolvedConfig EXCEPT ![r] = config]
          /\ IF getHandler(CurrentAction(r).type)
             THEN /\ pc' = [pc EXCEPT ![r] = "handler"]
                  /\ error' = error
                  /\ trace' = [trace EXCEPT ![r] =
                        @ \o <<Event("resolve", idx[r], config),
                               Event("invoke", idx[r],
                                     [type |-> CurrentAction(r).type, config |-> config])>>]
             ELSE /\ pc' = [pc EXCEPT ![r] = "innerCatch"]
                  /\ error' = [error EXCEPT ![r] = UnknownActionError(CurrentAction(r).type)]
                  /\ trace' = [trace EXCEPT ![r] =
                        @ \o <<Event("resolve", idx[r], config),
                               Event("unknown", idx[r], CurrentAction(r).type)>>]
    /\ UNCHANGED <<call, executions, execution_steps, workflow, triggerData, context,
                   executionLog, idx, stepDbId, stepResult, returned>>

\* createExecutionStep resolved: lines 71-74 and executeAction (155-162), up to
\* the call of the handler, or to its throw when no handler is registered
Dispatch(r) ==
    /\ pc[r] = "createExecutionStep"
    /\ LET config == resolveVariables(CurrentAction(r).config, context[r])
       IN /\ resolvedConfig' = [resolvedConfig EXCEPT ![r] = config]
          /\ IF getHandler(CurrentAction(r).type)
             THEN /\ pc' = [pc EXCEPT ![r] = "handler"]
                  /\ error' = error
                  /\ trace' = [trace EXCEPT ![r] =
                        @ \o <<Event("resolve", idx[r], config),
                               Event("invoke", idx[r],
                                     [type |-> CurrentAction(r).type, config |-> config])>>]
             ELSE /\ pc' = [pc EXCEPT ![r] = "innerCatch"]
                  /\ error' = [error EXCEPT ![r] = UnknownActionError(CurrentAction(r).type)]
                  /\ trace' = [trace EXCEPT ![r] =
                        @ \o <<Event("resolve", idx[r], config),
                               Event("unknown", idx[r], CurrentAction(r).type)>>]
    /\ UNCHANGED <<call, executions, execution_steps, workflow, triggerData, context,
                   executionLog, idx, stepDbId, stepResult, returned>>

\* the handler resolved with a result: lines 77-85, up to the call of updateExecutionStep
HandlerReturn(r) ==
    /\ pc[r] = "handler"
    /\ \E res \in HandlerResults :
        /\ stepResult' = [stepResult EXCEPT ![r] = res]
        /\ context' = [context EXCEPT ![r] = StoreOutput(@, CurrentAction(r), res)]
        /\ execution_steps' = updateExecutionStep(execution_steps, stepDbId[r],
                [status |-> Str(S_completed), output_data |-> res,
                 error_message |-> Undefined])
        /\ trace' = [trace EXCEPT ![r] =
                @ \o <<Event("return", idx[r], res),
                       Event("updateStep", idx[r], Str(S_completed))>>]
    /\ pc' = [pc EXCEPT ![r] = "updateStepCompleted"]
    /\ UNCHANGED <<call, executions, workflow, triggerData, executionLog, idx, stepDbId,
                   resolvedConfig, error, returned>>

\* AfterUpdateStepCompleted as it would be if the loop did not advance
AfterUpdateStepCompletedNoAdvance(r) ==
    /\ pc[r] = "updateStepCompleted"
    /\ executionLog' = [executionLog EXCEPT ![r] =
            Push(@, CompletedEntry(CurrentAction(r), stepResult[r]))]
    /\ pc' = [pc EXCEPT ![r] = "loop"]
    /\ UNCHANGED <<call, executions, execution_steps, workflow, triggerData, context, idx,
                   stepDbId, resolvedConfig, stepResult, error, returned, trace>>

\* updateExecutionStep(completed) resolved: lines 87-93 and the loop's i++
AfterUpdateStepCompleted(r) ==
    /\ pc[r] = "updateStepCompleted"
    /\ executionLog' = [executionLog EXCEPT ![r] =
            Push(@, CompletedEntry(CurrentAction(r), stepResult[r]))]
    /\ idx' = [idx EXCEPT ![r] = @ + 1]
    /\ pc' = [pc EXCEPT ![r] = "loop"]
    /\ UNCHANGED <<call, executions, execution_steps, workflow, triggerData, context,
                   stepDbId, resolvedConfig, stepResult, error, returned, trace>>

\* the handler rejected: control enters the inner catch (line 95)
HandlerThrow(r) ==
    /\ pc[r] = "handler"
    /\ \E thrown \in HandlerThrows :
        /\ error' = [error EXCEPT ![r] = thrown]
        /\ trace' = [trace EXCEPT ![r] = Append(@, Event("throw", idx[r], thrown))]
    /\ pc' = [pc EXCEPT ![r] = "innerCatch"]
    /\ UNCHANGED <<call, executions, execution_steps, workflow, triggerData, context,
                   executionLog, idx, stepDbId, resolvedConfig, stepResult, returned>>

\* InnerCatch as it would be if the block rethrew without reading error.message
InnerCatchRethrowOnly(r) ==
    /\ pc[r] = "innerCatch"
    /\ pc' = [pc EXCEPT ![r] = "outerCatch"]
    /\ UNCHANGED <<call, executions, execution_steps, workflow, triggerData, context,
                   executionLog, idx, stepDbId, resolvedConfig, stepResult, error,
                   returned, trace>>

\* the inner catch: lines 96-102, up to the call of updateExecutionStep; reading
\* error.message of null or undefined throws out of the block to the outer catch
InnerCatch(r) ==
    /\ pc[r] = "innerCatch"
    /\ IF HasNoProperties(error[r])
       THEN /\ error' = [error EXCEPT ![r] = MessageTypeError(@)]
            /\ pc' = [pc EXCEPT ![r] = "outerCatch"]
            /\ UNCHANGED <<execution_steps, trace>>
       ELSE /\ execution_steps' = updateExecutionStep(execution_steps, stepDbId[r],
                    [status |-> Str(S_failed), output_data |-> Undefined,
                     error_message |-> errorMessage(error[r])])
            /\ trace' = [trace EXCEPT ![r] = Append(@, Event("updateStep", idx[r], Str(S_failed)))]
            /\ pc' = [pc EXCEPT ![r] = "updateStepFailed"]
            /\ error' = error
    /\ UNCHANGED <<call, executions, workflow, triggerData, context, executionLog, idx,
                   stepDbId, resolvedConfig, stepResult, returned>>

\* AfterUpdateStepFailed as it would be if the failure were swallowed and the
\* loop went on with the next action
AfterUpdateStepFailedContinue(r) ==
    /\ pc[r] = "updateStepFailed"
    /\ executionLog' = [executionLog EXCEPT ![r] =
            Push(@, FailedEntry(CurrentAction(r), errorMessage(error[r])))]
    /\ idx' = [idx EXCEPT ![r] = @ + 1]
    /\ pc' = [pc EXCEPT ![r] = "loop"]
    /\ UNCHANGED <<call, executions, execution_steps, workflow, triggerData, context,
                   stepDbId, resolvedConfig, stepResult, error, returned, trace>>

\* AfterUpdateStepFailed as it would be if the inner catch also marked the run failed
AfterUpdateStepFailedMarkingRun(r) ==
    /\ pc[r] = "updateStepFailed"
    /\ executionLog' = [executionLog EXCEPT ![r] =
            Push(@, FailedEntry(CurrentAction(r), errorMessage(error[r])))]
    /\ executions' = updateExecution(executions, uuidv4(r),
            [status |-> Str(S_failed), execution_log |-> executionLog'[r],
             error_message |-> errorMessage(error[r]), completed_at |-> Timestamp])
    /\ trace' = [trace EXCEPT ![r] = Append(@, Event("updateExecution", -1, Str(S_failed)))]
    /\ pc' = [pc EXCEPT ![r] = "outerCatch"]
    /\ UNCHANGED <<call, execution_steps, workflow, triggerData, context, idx,
                   stepDbId, resolvedConfig, stepResult, error, returned>>

\* updateExecutionStep(failed) resolved: lines 104-111, the failed entry and the rethrow
AfterUpdateStepFailed(r) ==
    /\ pc[r] = "updateStepFailed"
    /\ executionLog' = [executionLog EXCEPT ![r] =
            Push(@, FailedEntry(CurrentAction(r), errorMessage(error[r])))]
    /\ pc' = [pc EXCEPT ![r] = "outerCatch"]
    /\ UNCHANGED <<call, executions, execution_steps, workflow, triggerData, context, idx,
                   stepDbId, resolvedConfig, stepResult, error, returned, trace>>

\* the loop is over: lines 116-120, up to the call of updateExecution(completed)
FinishLoop(r) ==
    /\ pc[r] = "loop"
    /\ ~(idx[r] < Len(workflow[r].actions))
    /\ executions' = updateExecution(executions, uuidv4(r),
            [status |-> Str(S_completed), execution_log |-> executionLog[r],
             error_message |-> Undefined, completed_at |-> Timestamp])
    /\ trace' = [trace EXCEPT ![r] = Append(@, Event("updateExecution", -1, Str(S_completed)))]
    /\ pc' = [pc EXCEPT ![r] = "updateExecutionCompleted"]
    /\ UNCHANGED <<call, execution_steps, workflow, triggerData, context, executionLog, idx,
                   stepDbId, resolvedConfig, stepResult, error, returned>>

\* updateExecution(completed) resolved: lines 122-129, the successful result
ReturnSuccess(r) ==
    /\ pc[r] = "updateExecutionCompleted"
    /\ returned' = [returned EXCEPT ![r] =
            [success |-> Bool(TRUE), execution_id |-> uuidv4(r),
             log |-> executionLog[r], context |-> context[r]]]
    /\ pc' = [pc EXCEPT ![r] = "returned"]
    /\ UNCHANGED <<call, executions, execution_steps, workflow, triggerData, context,
                   executionLog, idx, stepDbId, resolvedConfig, stepResult, error, trace>>

\* the outer catch: lines 132-141, up to the call of updateExecution(failed);
\* reading error.message of null or undefined throws out of execute
OuterCatch(r) ==
    /\ pc[r] = "outerCatch"
    /\ IF HasNoProperties(error[r])
       THEN /\ error' = [error EXCEPT ![r] = MessageTypeError(@)]
            /\ pc' = [pc EXCEPT ![r] = "raised"]
            /\ UNCHANGED <<executions, trace>>
       ELSE /\ executions' = updateExecution(executions, uuidv4(r),
                    [status |-> Str(S_failed), execution_log |-> executionLog[r],
                     error_message |-> errorMessage(error[r]),
                     completed_at |-> Timestamp])
            /\ trace' = [trace EXCEPT ![r] = Append(@, Event("updateExecution", -1, Str(S_failed)))]
            /\ pc' = [pc EXCEPT ![r] = "updateExecutionFailed"]
            /\ error' = error
    /\ UNCHANGED <<call, execution_steps, workflow, triggerData, context, executionLog, idx,
                   stepDbId, resolvedConfig, stepResult, returned>>

\* updateExecution(failed) resolved: lines 143-148, the failed result
ReturnFailure(r) ==
    /\ pc[r] = "updateExecutionFailed"
    /\ returned' = [returned EXCEPT ![r] =
            [success |-> Bool(FALSE), execution_id |-> uuidv4(r),
             error |-> errorMessage(error[r]), log |-> executionLog[r]]]
    /\ pc' = [pc EXCEPT ![r] = "returned"]
    /\ UNCHANGED <<call, executions, execution_steps, workflow, triggerData, context,
                   executionLog, idx, stepDbId, resolvedConfig, stepResult, error, trace>>

\* one step of invocation r
Step(r) ==
    \/ Execute(r)
    \/ AfterCreateExecution(r)
    \/ StartStep(r)
    \/ Dispatch(r)
    \/ HandlerReturn(r)
    \/ AfterUpdateStepCompleted(r)
    \/ HandlerThrow(r)
    \/ InnerCatch(r)
    \/ AfterUpdateStepFailed(r)
    \/ FinishLoop(r)
    \/ ReturnSuccess(r)
    \/ OuterCatch(r)
    \/ ReturnFailure(r)

\* one invocation of execute, run alone
Next == Step(1)

Spec == Init /\ [][Next]_vars

(* ----------------------------------------------------------------------- *)
(* Reading the state                                                       *)
(* ----------------------------------------------------------------------- *)

\* the invocations that have started
Started == {r \in Runs : pc[r] # "idle"}

\* the events named e of invocation r, in order
EventsOf(r, e) == SelectSeq(trace[r], LAMBDA x : x.e = e)

\* the step rows invocation r created, in order
StepRowsOf(r) == SelectSeq(execution_steps, LAMBDA row : row.execution_id = uuidv4(r))

\* the run row of invocation r
RunRowOf(r) == executions[uuidv4(r)]

\* action k (0-based) of invocation r failed: its handler rejected, or none is registered
FailedAt(r, k) ==
    \E p \in 1..Len(trace[r]) : trace[r][p].i = k /\ trace[r][p].e \in {"throw", "unknown"}

\* the status of a log entry
EntryStatus(entry) == GetProp(entry, S_status)

(* ----------------------------------------------------------------------- *)
(* C1                                                                      *)
(* ----------------------------------------------------------------------- *)

\* C1: fail-fast.  If action k fails (its handler raises, or no handler is
\* registered), no step record is created and no handler is invoked for an
\* action after k, and the returned log has exactly k+1 entries: k completed
\* ones followed by a failed one.
C1_FailFast ==
    \A r \in Started : \A k \in 0..(Len(workflow[r].actions) - 1) :
        FailedAt(r, k) =>
            /\ \A p \in 1..Len(trace[r]) :
                    trace[r][p].e \in {"createStep", "resolve", "invoke"} => trace[r][p].i <= k
            /\ Len(StepRowsOf(r)) <= k + 1
            /\ pc[r] = "returned" =>
                    /\ Len(returned[r].log.v) = k + 1
                    /\ \A j \in 1..k : EntryStatus(returned[r].log.v[j]) = Str(S_completed)
                    /\ EntryStatus(returned[r].log.v[k + 1]) = Str(S_failed)

\* the part of C1 the code keeps: nothing is started after the failing action
C1_NothingAfterFailure ==
    \A r \in Started : \A k \in 0..(Len(workflow[r].actions) - 1) :
        FailedAt(r, k) =>
            /\ \A p \in 1..Len(trace[r]) :
                    trace[r][p].e \in {"createStep", "resolve", "invoke"} => trace[r][p].i <= k
            /\ Len(StepRowsOf(r)) <= k + 1

(* ----------------------------------------------------------------------- *)
(* C2                                                                      *)
(* ----------------------------------------------------------------------- *)

\* some action of invocation r failed
SomeFailure(r) == \E k \in 0..(Len(workflow[r].actions) - 1) : FailedAt(r, k)

\* C2: execute never raises to its caller.  Whatever the handlers do (return,
\* reject with an error, reject with a value without message, be unregistered),
\* the invocation never ends by raising, what it returns is a result with a
\* boolean success flag, and a run in which an action failed returns success=false.
C2_NeverRaises ==
    \A r \in Started :
        /\ pc[r] # "raised"
        /\ pc[r] = "returned" =>
                /\ returned[r].success \in {Bool(TRUE), Bool(FALSE)}
                /\ SomeFailure(r) => returned[r].success = Bool(FALSE)

\* C2 witness: a handler rejected with undefined and execute returned all the same
C2_Witness ==
    \E r \in Started :
        /\ pc[r] = "returned"
        /\ \E p \in 1..Len(trace[r]) : trace[r][p].e = "throw" /\ trace[r][p].v = Undefined

(* ----------------------------------------------------------------------- *)
(* C3                                                                      *)
(* ----------------------------------------------------------------------- *)

\* C3: the handler invocations of a run are a prefix of the action sequence,
\* in index order, none skipped, none repeated; and action i+1 is neither
\* resolved nor started before the handler of action i has returned.
C3_SequentialPrefix ==
    \A r \in Started :
        LET resolves == EventsOf(r, "resolve")
            invokes == EventsOf(r, "invoke")
        IN /\ Len(resolves) <= Len(workflow[r].actions)
           /\ \A j \in 1..Len(resolves) : resolves[j].i = j - 1
           /\ \A j \in 1..Len(invokes) :
                /\ invokes[j].i = j - 1
                /\ invokes[j].v.type = workflow[r].actions[j].type
           /\ \A p \in 1..Len(trace[r]) :
                (trace[r][p].e \in {"resolve", "invoke"} /\ trace[r][p].i > 0) =>
                    \E q \in 1..(p - 1) :
                        trace[r][q].e = "return" /\ trace[r][q].i = trace[r][p].i - 1
           /\ \A p \in 1..Len(trace[r]) :
                trace[r][p].e \in {"throw", "unknown"} =>
                    \A q \in (p + 1)..Len(trace[r]) : trace[r][q].e \notin {"resolve", "invoke"}

\* C3 witness: a run that invoked the handlers of three actions in a row
C3_Witness ==
    \E r \in Started :
        /\ pc[r] = "returned"
        /\ Len(EventsOf(r, "invoke")) >= 3

(* ----------------------------------------------------------------------- *)
(* C4                                                                      *)
(* ----------------------------------------------------------------------- *)

\* where execute stands once the action loop is over and the run row is written
AfterLoop == {"updateExecutionCompleted", "updateExecutionFailed", "returned"}

CountBefore(r, e, i, p) ==
    Cardinality({q \in 1..(p - 1) : trace[r][q].e = e /\ trace[r][q].i = i})

\* C5: the step record of every attempted action is created with status running
\* and the action's raw config as input before the action is resolved or its
\* handler invoked, and is updated exactly once, to completed or failed, before
\* the next step record is created or the run is closed.
C5_StepRecordLifecycle ==
    \A r \in Started :
        LET rows == StepRowsOf(r)
            n == Len(trace[r])
        IN /\ Len(rows) = Len(EventsOf(r, "createStep"))
           /\ \A j \in 1..Len(rows) :
                /\ rows[j].step_id = workflow[r].actions[j].id
                /\ rows[j].input_data = JSONstringify(workflow[r].actions[j].config)
                /\ CountBefore(r, "updateStep", j - 1, n + 1) = 0 =>
                        rows[j].status = Str(S_running)
                /\ CountBefore(r, "updateStep", j - 1, n + 1) > 0 =>
                        rows[j].status \in {Str(S_completed), Str(S_failed)}
           /\ \A p \in 1..n :
                /\ trace[r][p].e \in {"resolve", "invoke"} =>
                        /\ CountBefore(r, "createStep", trace[r][p].i, p) = 1
                        /\ CountBefore(r, "updateStep", trace[r][p].i, p) = 0
                /\ (trace[r][p].e = "createStep" /\ trace[r][p].i > 0) =>
                        CountBefore(r, "updateStep", trace[r][p].i - 1, p) = 1
                /\ trace[r][p].e = "updateExecution" =>
                        \A j \in 1..Len(rows) : CountBefore(r, "updateStep", j - 1, p) = 1

(* ----------------------------------------------------------------------- *)
(* C6                                                                      *)
(* ----------------------------------------------------------------------- *)

\* an action declares an output key: a non-empty string
DeclaresOutput(action) == action.output.t = "string" /\ action.output.v # <<>>

RECURSIVE ContextAfter(_, _)
\* the seeded context of invocation r with the results of its first k actions
\* bound under their output keys, in action order
ContextAfter(r, k) ==
    IF k = 0
    THEN Obj(<<S_trigger, S_workflow, S_now, S_executionId>>,
             <<triggerData[r],
               Obj(<<S_id, S_name>>, <<workflow[r].id, workflow[r].name>>),
               Timestamp,
               uuidv4(r)>>)
    ELSE LET a == workflow[r].actions[k]
             res == EventsOf(r, "return")[k].v
         IN IF DeclaresOutput(a)
            THEN SetProp(ContextAfter(r, k - 1), a.output.v, res)
            ELSE ContextAfter(r, k - 1)

\* C6: execute returns success=true exactly when every action had a registered
\* handler that returned a result; then the run row is completed with the full
\* log, the returned log has n completed entries in action order and the result
\* carries the final context.  Otherwise the run row is failed and the result
\* has success=false, an error field and the partial log, and no context.
C6_ResultMatchesOutcome ==
    \A r \in Started :
        pc[r] = "returned" =>
            LET n == Len(workflow[r].actions)
                returns == EventsOf(r, "return")
                res == returned[r]
                row == RunRowOf(r)
            IN /\ res.success = Bool(Len(returns) = n)
               /\ res.execution_id = uuidv4(r)
               /\ row.execution_log = JSONstringify(res.log)
               /\ Len(returns) = n =>
                    /\ DOMAIN res = {"success", "execution_id", "log", "context"}
                    /\ row.status = Str(S_completed)
                    /\ Len(res.log.v) = n
                    /\ \A j \in 1..n :
                        res.log.v[j] =
                            Obj(<<S_step, S_status, S_output>>,
                                <<workflow[r].actions[j].id, Str(S_completed), returns[j].v>>)
                    /\ res.context = ContextAfter(r, n)
               /\ Len(returns) # n =>
                    /\ DOMAIN res = {"success", "execution_id", "error", "log"}
                    /\ row.status = Str(S_failed)
                    /\ Len(res.log.v) <= Len(returns) + 1
                    /\ \A j \in 1..Len(res.log.v) :
                        /\ GetProp(res.log.v[j], S_step) = workflow[r].actions[j].id
                        /\ j <= Len(returns) =>
                                /\ EntryStatus(res.log.v[j]) = Str(S_completed)
                                /\ GetProp(res.log.v[j], S_output) = returns[j].v
                        /\ j > Len(returns) => EntryStatus(res.log.v[j]) = Str(S_failed)

\* C6 witness: a three-action run that returned success=true
C6_Witness ==
    \E r \in Started :
        /\ pc[r] = "returned"
        /\ returned[r].success = Bool(TRUE)
        /\ Len(workflow[r].actions) = 3

(* ----------------------------------------------------------------------- *)
(* C7                                                                      *)
(* ----------------------------------------------------------------------- *)

\* C7: when an action fails, the failing error's message is recorded verbatim
\* in the failed step row, the failed log entry, the run row and the returned
\* result, for every message string, the empty one included.
C7_MessageInFourPlaces ==
    \A r \in Started :
        pc[r] = "returned" =>
            \A p \in 1..Len(trace[r]) :
                (trace[r][p].e = "throw" /\ trace[r][p].v.t = "error") =>
                    LET k == trace[r][p].i
                        message == trace[r][p].v.message
                    IN /\ StepRowsOf(r)[k + 1].error_message = message
                       /\ GetProp(returned[r].log.v[k + 1], S_error) = message
                       /\ RunRowOf(r).error_message = message
                       /\ returned[r].error = message

(* ----------------------------------------------------------------------- *)
(* C8                                                                      *)
(* ----------------------------------------------------------------------- *)

\* the keys of an object
Keys(o) == {o.k[i] : i \in 1..Len(o.k)}

\* C8: a successful action changes the context by the one binding
\* [output key -> result] when it declares an output key (overwriting what was
\* there, seeded keys included) and not at all otherwise; nothing else changes
\* the context of a run, and no key is ever removed.
C8_ContextFrame ==
    [][\A r \in Runs :
        /\ (pc[r] = "handler" /\ pc'[r] = "updateStepCompleted") =>
            LET a == CurrentAction(r)
                res == trace'[r][Len(trace'[r]) - 1].v
            IN IF DeclaresOutput(a)
               THEN /\ Keys(context'[r]) = Keys(context[r]) \cup {a.output.v}
                    /\ GetProp(context'[r], a.output.v) = res
                    /\ \A key \in Keys(context[r]) \ {a.output.v} :
                            GetProp(context'[r], key) = GetProp(context[r], key)
               ELSE context'[r] = context[r]
        /\ (pc[r] \notin {"idle", "createExecution", "handler"}) => context'[r] = context[r]
        /\ (pc[r] \notin {"idle", "createExecution"}) => Keys(context[r]) \subseteq Keys(context'[r])
      ]_vars

\* C8 witness: a handler result was just stored over the seeded key trigger
C8_Witness ==
    \E r \in Started :
        /\ pc[r] = "updateStepCompleted"
        /\ GetProp(context[r], S_trigger) \in HandlerResults
        /\ Keys(context[r]) = {S_trigger, S_workflow, S_now, S_executionId}

(* ----------------------------------------------------------------------- *)
(* C9                                                                      *)
(* ----------------------------------------------------------------------- *)

\* C9: the config the handler of action i is given is the action's config
\* resolved against the seeded context with the results of the earlier actions
\* bound in action order; it never shows the action's own or a later output.
C9_HandlerSeesPriorOutputs ==
    \A r \in Started :
        LET invokes == EventsOf(r, "invoke")
        IN \A j \in 1..Len(invokes) :
            invokes[j].v.config =
                resolveVariables(workflow[r].actions[j].config, ContextAfter(r, j - 1))

\* C9 witness: the third handler was given the second action's result, which
\* had replaced the first one's under the same key
C9_Witness ==
    \E r \in Started :
        LET invokes == EventsOf(r, "invoke")
            returns == EventsOf(r, "return")
        IN /\ Len(invokes) = 3
           /\ Len(returns) >= 2
           /\ returns[1].v = Str(<<"r">>)
           /\ returns[2].v = Num(0)
           /\ invokes[3].v.config = Str(<<"0", "!">>)

(* ----------------------------------------------------------------------- *)
(* C10                                                                     *)
(* ----------------------------------------------------------------------- *)

\* the message of the spec's example, written out
UnknownNonexistentLiteral == Str(<<"U", "n", "k", "n", "o", "w", "n", " ", "a", "c", "t", "i", "o", "n", " ", "t", "y", "p", "e", ":", " ", "n", "o", "n", "e", "x", "i", "s", "t", "e", "n", "t">>)

\* the text "Unknown action type: ", written out
UnknownPrefixLiteral == <<"U", "n", "k", "n", "o", "w", "n", " ", "a", "c", "t", "i", "o", "n", " ", "t", "y", "p", "e", ":", " ">>

\* C10: an action whose type has no registered handler is a step failure with
\* the message "Unknown action type: <type>": the step row is failed with that
\* message, a failed log entry is appended, the run is failed, and the result
\* has success=false and that message as error.
C10_UnknownActionType ==
    \A r \in Started :
        pc[r] = "returned" =>
            \A p \in 1..Len(trace[r]) :
                trace[r][p].e = "unknown" =>
                    LET k == trace[r][p].i
                        type == workflow[r].actions[k + 1].type
                        message == Str(UnknownPrefixLiteral \o type.v)
                        rows == StepRowsOf(r)
                        log == returned[r].log.v
                    IN /\ ~getHandler(type)
                       /\ type = Str(S_nonexistent) => message = UnknownNonexistentLiteral
                       /\ Len(rows) = k + 1
                       /\ rows[k + 1].status = Str(S_failed)
                       /\ rows[k + 1].error_message = message
                       /\ Len(log) = k + 1
                       /\ log[k + 1] =
                            Obj(<<S_step, S_status, S_error>>,
                                <<workflow[r].actions[k + 1].id, Str(S_failed), message>>)
                       /\ RunRowOf(r).status = Str(S_failed)
                       /\ RunRowOf(r).error_message = message
                       /\ returned[r].success = Bool(FALSE)
                       /\ returned[r].error = message

\* C10 witness: a run that returned after its second action had no handler
C10_Witness ==
    \E r \in Started :
        /\ pc[r] = "returned"
        /\ \E p \in 1..Len(trace[r]) : trace[r][p].e = "unknown" /\ trace[r][p].i = 1
        /\ returned[r].error = UnknownNonexistentLiteral

(* ----------------------------------------------------------------------- *)
(* Persistence failures: a call of the database rejects                    *)
(* ----------------------------------------------------------------------- *)

S_sqlite_error == <<"S", "Q", "L">>

\* the error a rejected database call hands over (reject(err))
DbError == Error(Str(S_sqlite_error))

\* createExecution rejects (line 37, before the try block): execute rejects
ExecuteDbFails(r) ==
    /\ pc[r] = "idle"
    /\ \E wf \in Workflows, t \in TriggerInputs :
        /\ workflow' = [workflow EXCEPT ![r] = wf]
        /\ triggerData' = [triggerData EXCEPT ![r] = IF t = Undefined THEN EmptyObj ELSE t]
    /\ error' = [error EXCEPT ![r] = DbError]
    /\ pc' = [pc EXCEPT ![r] = "raised"]
    /\ trace' = [trace EXCEPT ![r] = Append(@, Event("dbError", -1, "createExecution"))]
    /\ UNCHANGED <<call, executions, execution_steps, context, executionLog, idx,
                   stepDbId, resolvedConfig, stepResult, returned>>

\* createExecutionStep rejects (line 61, inside the outer try only)
StartStepDbFails(r) ==
    /\ pc[r] = "loop"
    /\ idx[r] < Len(workflow[r].actions)
    /\ error' = [error EXCEPT ![r] = DbError]
    /\ pc' = [pc EXCEPT ![r] = "outerCatch"]
    /\ trace' = [trace EXCEPT ![r] = Append(@, Event("dbError", idx[r], "createExecutionStep"))]
    /\ UNCHANGED <<call, executions, execution_steps, workflow, triggerData, context,
                   executionLog, idx, stepDbId, resolvedConfig, stepResult, returned>>

\* the handler resolved, updateExecutionStep(completed) rejects (line 82,
\* inside the inner try, after the context was written at line 78)
HandlerReturnDbFails(r) ==
    /\ pc[r] = "handler"
    /\ \E res \in HandlerResults :
        /\ stepResult' = [stepResult EXCEPT ![r] = res]
        /\ context' = [context EXCEPT ![r] = StoreOutput(@, CurrentAction(r), res)]
        /\ trace' = [trace EXCEPT ![r] =
                @ \o <<Event("return", idx[r], res),
                       Event("dbError", idx[r], "updateExecutionStep")>>]
    /\ error' = [error EXCEPT ![r] = DbError]
    /\ pc' = [pc EXCEPT ![r] = "innerCatch"]
    /\ UNCHANGED <<call, executions, execution_steps, workflow, triggerData,
                   executionLog, idx, stepDbId, resolvedConfig, returned>>

\* updateExecutionStep(failed) rejects (line 99, inside the inner catch)
InnerCatchDbFails(r) ==
    /\ pc[r] = "innerCatch"
    /\ ~HasNoProperties(error[r])
    /\ error' = [error EXCEPT ![r] = DbError]
    /\ pc' = [pc EXCEPT ![r] = "outerCatch"]
    /\ trace' = [trace EXCEPT ![r] = Append(@, Event("dbError", idx[r], "updateExecutionStep"))]
    /\ UNCHANGED <<call, executions, execution_steps, workflow, triggerData, context,
                   executionLog, idx, stepDbId, resolvedConfig, stepResult, returned>>

\* updateExecution(completed) rejects (line 116, inside the outer try)
FinishLoopDbFails(r) ==
    /\ pc[r] = "loop"
    /\ ~(idx[r] < Len(workflow[r].actions))
    /\ error' = [error EXCEPT ![r] = DbError]
    /\ pc' = [pc EXCEPT ![r] = "outerCatch"]
    /\ trace' = [trace EXCEPT ![r] = Append(@, Event("dbError", -1, "updateExecution"))]
    /\ UNCHANGED <<call, executions, execution_steps, workflow, triggerData, context,
                   executionLog, idx, stepDbId, resolvedConfig, stepResult, returned>>

\* updateExecution(failed) rejects (line 136, inside the outer catch): execute rejects
OuterCatchDbFails(r) ==
    /\ pc[r] = "outerCatch"
    /\ ~HasNoProperties(error[r])
    /\ error' = [error EXCEPT ![r] = DbError]
    /\ pc' = [pc EXCEPT ![r] = "raised"]
    /\ trace' = [trace EXCEPT ![r] = Append(@, Event("dbError", -1, "updateExecution"))]
    /\ UNCHANGED <<call, executions, execution_steps, workflow, triggerData, context,
                   executionLog, idx, stepDbId, resolvedConfig, stepResult, returned>>

\* one step of invocation r over a database whose calls may reject
StepDb(r) ==
    \/ Step(r)
    \/ ExecuteDbFails(r)
    \/ StartStepDbFails(r)
    \/ HandlerReturnDbFails(r)
    \/ InnerCatchDbFails(r)
    \/ FinishLoopDbFails(r)
    \/ OuterCatchDbFails(r)

NextDb == StepDb(1)

SpecDb == Init /\ [][NextDb]_vars

(* ----------------------------------------------------------------------- *)
(* C11                                                                     *)
(* ----------------------------------------------------------------------- *)

\* the position of the first rejected database call in the history of r, 0 if none
FirstDbError(r) ==
    LET ps == {p \in 1..Len(trace[r]) : trace[r][p].e = "dbError"}
    IN IF ps = {} THEN 0 ELSE CHOOSE p \in ps : \A q \in ps : p <= q

\* C11: once a persistence operation of a run has failed, the orchestrator
\* does nothing more with the run: it writes no step record and no run record,
\* appends no log entry, and never returns a result; the failure is on its way
\* to the caller, or has reached it.
C11_PersistenceFailurePropagates ==
    \A r \in Started :
        FirstDbError(r) > 0 =>
            /\ FirstDbError(r) = Len(trace[r])
            /\ pc[r] # "returned"
            /\ error[r] = DbError
            /\ \A j \in 1..Len(StepRowsOf(r)) :
                   StepRowsOf(r)[j].error_message # errorMessage(DbError)

(* ----------------------------------------------------------------------- *)
(* Concurrent invocations of execute                                       *)
(* ----------------------------------------------------------------------- *)

\* the workflows run concurrently: a two-step one whose second action reads the
\* first one's output, and a one-step one that overwrites a seeded context key
ConcurrentWorkflows ==
    {wf \in Workflows : wf.actions \in {<<ActionA, ActionB>>, <<ActionD>>}}

\* execute is called with one of the workflows run concurrently
ExecuteConcurrently(r) == Start(r, ConcurrentWorkflows)

\* one step of invocation r among concurrent ones
StepConcurrent(r) ==
    \/ ExecuteConcurrently(r)
    \/ AfterCreateExecution(r)
    \/ StartStep(r)
    \/ Dispatch(r)
    \/ HandlerReturn(r)
    \/ AfterUpdateStepCompleted(r)
    \/ HandlerThrow(r)
    \/ InnerCatch(r)
    \/ AfterUpdateStepFailed(r)
    \/ FinishLoop(r)
    \/ ReturnSuccess(r)
    \/ OuterCatch(r)
    \/ ReturnFailure(r)

\* the invocations interleave at their awaits
NextConcurrent == \E r \in Runs : StepConcurrent(r)

SpecConcurrent == Init /\ [][NextConcurrent]_vars

(* ----------------------------------------------------------------------- *)
(* C12                                                                     *)
(* ----------------------------------------------------------------------- *)

\* the error that ended the loop of invocation r: what its handler rejected
\* with, or executeAction's error for a type without handler
OwnFailure(r) ==
    LET f == SelectSeq(trace[r], LAMBDA x : x.e \in {"throw", "unknown"})[1]
    IN IF f.e = "unknown" THEN UnknownActionError(f.v) ELSE f.v

\* the log of invocation r as its own actions and their outcomes so far make it
OwnLog(r) ==
    LET returns == EventsOf(r, "return")
        done == [j \in 1..Len(returns) |->
                    CompletedEntry(workflow[r].actions[j], returns[j].v)]
    IN IF ~(\E k \in 0..Len(workflow[r].actions) : FailedAt(r, k))
          \/ HasNoProperties(OwnFailure(r))
       THEN Arr(done)
       ELSE Arr(Append(done, FailedEntry(workflow[r].actions[Len(returns) + 1],
                                         errorMessage(OwnFailure(r)))))

\* the result of invocation r as its own workflow, trigger data and handler
\* outcomes make it when it runs alone
OwnResult(r) ==
    IF Len(EventsOf(r, "return")) = Len(workflow[r].actions)
    THEN [success |-> Bool(TRUE), execution_id |-> uuidv4(r),
          log |-> OwnLog(r), context |-> ContextAfter(r, Len(workflow[r].actions))]
    ELSE [success |-> Bool(FALSE), execution_id |-> uuidv4(r),
          error |-> IF HasNoProperties(OwnFailure(r))
                    THEN errorMessage(MessageTypeError(OwnFailure(r)))
                    ELSE errorMessage(OwnFailure(r)),
          log |-> OwnLog(r)]

\* what invocation r owns: its context, its log, its result, its run row and
\* its step rows
Owned(r) ==
    <<context[r], executionLog[r], returned[r], StepRowsOf(r),
      IF uuidv4(r) \in DOMAIN executions THEN RunRowOf(r) ELSE Undefined>>

\* every value of invocation r comes from its own actions: its context holds
\* its own results, its log and its step rows describe its own actions, the
\* step row it works on is one it created, and its result is the one it has
\* when it runs alone
C12_OwnValues ==
    \A r \in Started :
        LET returns == EventsOf(r, "return")
            rows == StepRowsOf(r)
        IN /\ context[r] # Undefined => context[r] = ContextAfter(r, Len(returns))
           /\ executionLog[r] # Undefined =>
                \A j \in 1..Len(executionLog[r].v) : executionLog[r].v[j] = OwnLog(r).v[j]
           /\ Len(rows) = Len(EventsOf(r, "createStep"))
           /\ \A j \in 1..Len(rows) :
                /\ rows[j].step_id = workflow[r].actions[j].id
                /\ rows[j].status = Str(S_completed) =>
                        /\ j <= Len(returns)
                        /\ rows[j].output_data =
                                JSONstringify(OrElse(returns[j].v, EmptyObj))
           /\ stepDbId[r] # 0 => execution_steps[stepDbId[r]].execution_id = uuidv4(r)
           /\ pc[r] = "returned" =>
                /\ returned[r] = OwnResult(r)
                /\ RunRowOf(r).execution_log = JSONstringify(OwnLog(r))

\* a step of one invocation leaves what the other invocations own as it is
C12_OthersUntouched ==
    \A r \in Runs : (pc'[r] = pc[r] /\ trace'[r] = trace[r]) => Owned(r)' = Owned(r)

\* C12: concurrent invocations of execute are independent.  In every
\* interleaving each invocation's context and log hold only values of its own
\* actions, each invocation writes only its own run row and the step rows it
\* created, and each invocation returns the result it returns when run alone.
C12_ConcurrentRunsIndependent == []C12_OwnValues /\ [][C12_OthersUntouched]_vars

\* C12 witness: two invocations have both returned, one successfully after two
\* actions, and their step rows alternate in the table
C12_Witness ==
    /\ pc[1] = "returned" /\ pc[2] = "returned"
    /\ returned[1].success = Bool(TRUE)
    /\ Len(workflow[1].actions) = 2
    /\ Len(execution_steps) >= 3
    /\ execution_steps[1].execution_id # execution_steps[2].execution_id
    /\ execution_steps[2].execution_id # execution_steps[3].execution_id

(* ----------------------------------------------------------------------- *)
(* C13                                                                     *)
(* ----------------------------------------------------------------------- *)

\* the step rows of invocation r that have reached a terminal status
TerminalRowsOf(r) ==
    SelectSeq(StepRowsOf(r), LAMBDA row : row.status \in {Str(S_completed), Str(S_failed)})

\* the log of an invocation only grows at its end: every step leaves the
\* entries it holds as they are, in place
C13_AppendOnly ==
    [][\A r \in Runs :
          (executionLog[r] # Undefined /\ executionLog'[r] # Undefined) =>
              /\ Len(executionLog'[r].v) \in {Len(executionLog[r].v), Len(executionLog[r].v) + 1}
              /\ SubSeq(executionLog'[r].v, 1, Len(executionLog[r].v)) = executionLog[r].v]_vars

\* C13: the step log mirrors the step records.  Entry j is about action j and
\* carries the terminal status of step record j; whenever the invocation is not
\* between the write of a step record and the push of its entry, the log is as
\* long as the number of step records in a terminal status; and when execute
\* has returned, every attempted action (every step record) has its entry.
C13_LogMirrorsStepRecords ==
    \A r \in Started :
        executionLog[r] # Undefined =>
            LET log == executionLog[r].v
                rows == StepRowsOf(r)
            IN /\ \A j \in 1..Len(log) :
                    /\ j <= Len(rows)
                    /\ GetProp(log[j], S_step) = rows[j].step_id
                    /\ EntryStatus(log[j]) = rows[j].status
               /\ pc[r] \notin {"updateStepCompleted", "updateStepFailed"} =>
                    Len(log) = Len(TerminalRowsOf(r))
               /\ pc[r] = "returned" => Len(log) = Len(rows)

(* ----------------------------------------------------------------------- *)
(* Calls of resolveVariables                                               *)
(* ----------------------------------------------------------------------- *)

\* a string has at most MaxPieces pieces: tokens and stretches of text
MaxPieces == 2

S_John == <<"J", "o", "h", "n">>

S_Hello == <<"H", "e", "l", "l", "o", " ">>

\* the token {{path}}
Tok(path) == <<"{", "{">> \o path \o <<"}", "}">>

\* contexts: the empty one, the one of a trigger with a name, one with falsy,
\* null, nested and array values, and one whose values hold braces
CtxEmpty == EmptyObj

CtxJohn == Obj(<<S_trigger>>, <<Obj(<<S_name>>, <<Str(S_John)>>)>>)

CtxFalsy ==
    Obj(<< <<"a">>, <<"z">>, <<"d">>, <<"l">>, <<"s">> >>,
        <<Obj(<< <<"b">>, <<"c">>, <<"d">>, <<"e">> >>,
              <<Num(0), Bool(FALSE), Str(<<>>), Null>>),
          Num(0),
          Obj(<< <<"x">> >>, <<Obj(<< <<"y">> >>, <<Num(0)>>)>>),
          Arr(<<Bool(FALSE), Str(<<"x">>)>>),
          Str(<<>>)>>)

CtxBraces ==
    Obj(<< <<"x">>, <<"y">>, <<"m">> >>,
        <<Str(<<"{", "y", "}">>), Str(<<"v">>), Str(Tok(<<"y">>))>>)

ResolveContexts == {CtxEmpty, CtxJohn, CtxFalsy, CtxBraces}

\* the paths written in tokens
ResolvePaths ==
    {S_trigger \o <<".">> \o S_name,
     S_trigger \o <<".">> \o S_name \o <<".">> \o S_length,
     S_trigger \o <<".">> \o S_name \o <<".", "0">>,
     <<"a", ".", "b">>, <<"a", ".", "c">>, <<"a", ".", "d">>, <<"a", ".", "e">>,
     <<"a", ".", "b", ".", "q">>, <<"a", ".", ".", "b">>, <<"a">>,
     <<"z">>, <<" ", "z", " ">>, <<"d", ".", "x", ".", "y">>,
     <<"l", ".", "0">>, <<"l", ".", "1">>, <<"s", ".">> \o S_length,
     <<"x">>, <<"y">>, <<"m">>, <<"n", "o">>}

\* the pieces strings are made of: a token for every path, and text with and
\* without braces
Pieces ==
    {Tok(path) : path \in ResolvePaths}
        \cup {S_Hello, <<"!">>, <<"z">>, <<"{">>, <<"}">>, <<"{", "{">>, <<"}", "}">>,
              <<"{", "x", "}">>, <<"{", "{", "}", "}">>}

RECURSIVE StringsOf(_)
\* the strings of at most n pieces
StringsOf(n) ==
    IF n = 0 THEN {<<>>}
    ELSE StringsOf(n - 1) \cup {s \o piece : s \in StringsOf(n - 1), piece \in Pieces}

\* the members of nested values
Leaves == {Str(Tok(<<"z">>)), Str(<<"!">>), Num(0), Bool(FALSE), Null, Undefined}

\* the key lists of nested objects; one key reads like a token
KeyLists ==
    {<<>>, << Tok(<<"z">>) >>, << Tok(<<"z">>), <<"k">> >>, << <<"k">>, Tok(<<"z">>) >>}

\* arrays and objects of leaves
Flat ==
    UNION {{Arr(a) : a \in [1..n -> Leaves]} : n \in 0..2}
        \cup UNION {{Obj(keys, vals) : vals \in [1..Len(keys) -> Leaves]} : keys \in KeyLists}

\* arrays and objects of arrays and objects
Nested == {Arr(<<x>>) : x \in Flat} \cup {Obj(<< <<"k">> >>, <<x>>) : x \in Flat}

\* the values resolveVariables is called with
ResolveValues == {Str(s) : s \in StringsOf(MaxPieces)} \cup Leaves \cup Flat \cup Nested

\* resolveVariables(config, context) is called and returns
Resolve ==
    /\ call = NoCall
    /\ \E config \in ResolveValues, ctx \in ResolveContexts :
        call' = [op |-> "resolveVariables", config |-> config, context |-> ctx,
                 result |-> resolveVariables(config, ctx)]
    /\ UNCHANGED <<executions, execution_steps, pc, workflow, triggerData, context,
                   executionLog, idx, stepDbId, resolvedConfig, stepResult, error,
                   returned, trace>>

NextResolve == Resolve

SpecResolve == Init /\ [][NextResolve]_vars

(* ----------------------------------------------------------------------- *)
(* C14                                                                     *)
(* ----------------------------------------------------------------------- *)

\* s[p..q] is an occurrence {{ path }}: two opening braces, a non-empty path
\* without closing brace, two closing braces
IsOccurrence(s, p, q) ==
    /\ q >= p + 4
    /\ s[p] = "{" /\ s[p + 1] = "{"
    /\ s[q - 1] = "}" /\ s[q] = "}"
    /\ \A i \in (p + 2)..(q - 2) : s[i] # "}"

\* the end of the occurrence that starts at p, 0 when none starts there
OccurrenceEnd(s, p) ==
    IF \E q \in p..Len(s) : IsOccurrence(s, p, q)
    THEN CHOOSE q \in p..Len(s) : IsOccurrence(s, p, q)
    ELSE 0

\* a value that has members: an object or an array
IsContainer(x) == x.t \in {"object", "array"}

RECURSIVE ContainerWalk(_, _)
\* the value the segments lead to from current, key by key through containers;
\* undefined when a segment is missing or current is not a container
ContainerWalk(current, segs) ==
    IF segs = <<>> THEN current
    ELSE IF IsContainer(current) /\ GetProp(current, Head(segs)) # Undefined
    THEN ContainerWalk(GetProp(current, Head(segs)), Tail(segs))
    ELSE Undefined

\* the value of a path in a context: the path trimmed and split on "."
PathValue(ctx, path) == ContainerWalk(ctx, SplitDots(Trim(path), <<>>))

RECURSIVE Replaced(_, _, _)
\* s from position c on, with the occurrences taken from left to right without
\* overlap, each replaced by the string form of its path's value when it has
\* one and left as it is otherwise
Replaced(s, c, ctx) ==
    LET starts == {p \in c..Len(s) : OccurrenceEnd(s, p) # 0}
    IN IF starts = {} THEN SubSeq(s, c, Len(s))
       ELSE LET p == CHOOSE x \in starts : \A y \in starts : x <= y
                q == OccurrenceEnd(s, p)
                value == PathValue(ctx, SubSeq(s, p + 2, q - 2))
            IN SubSeq(s, c, p - 1)
                   \o (IF value # Undefined THEN ToStr(value) ELSE SubSeq(s, p, q))
                   \o Replaced(s, q + 1, ctx)

\* C14: resolve of a string replaces every occurrence {{ path }}, taken from
\* left to right without overlap, whose path (trimmed, split on ".") leads
\* segment by segment to a defined value, by that value's string form; it
\* leaves every other occurrence as it is, delimiters included, and leaves the
\* text outside occurrences unchanged.
C14_ResolveString ==
    (call.op = "resolveVariables" /\ call.config.t = "string") =>
        call.result = Str(Replaced(call.config.v, 1, call.context))

RECURSIVE StopsAtString(_, _)
\* the walk of the segments from current comes to a string with segments left
StopsAtString(current, segs) ==
    /\ segs # <<>>
    /\ \/ current.t = "string"
       \/ /\ IsContainer(current)
          /\ StopsAtString(GetProp(current, Head(segs)), Tail(segs))

\* C14 holds of every string none of whose paths leads through a string
C14_ExceptThroughStrings ==
    (/\ call.op = "resolveVariables" /\ call.config.t = "string"
     /\ \A p \in 1..Len(call.config.v) :
            OccurrenceEnd(call.config.v, p) # 0 =>
                ~StopsAtString(call.context,
                    SplitDots(Trim(SubSeq(call.config.v, p + 2,
                                          OccurrenceEnd(call.config.v, p) - 2)), <<>>)))
        => call.result = Str(Replaced(call.config.v, 1, call.context))

\* the examples of C14 are among the calls, with the results it names
C14_Examples ==
    /\ substituteString(Tok(<<"a", ".", "b">>), CtxEmpty) = Tok(<<"a", ".", "b">>)
    /\ substituteString(S_Hello \o Tok(S_trigger \o <<".">> \o S_name), CtxJohn)
            = S_Hello \o S_John
    /\ \A ctx \in ResolveContexts : substituteString(S_Hello, ctx) = S_Hello
    /\ Str(Tok(<<"a", ".", "b">>)) \in ResolveValues
    /\ Str(S_Hello \o Tok(S_trigger \o <<".">> \o S_name)) \in ResolveValues

(* ----------------------------------------------------------------------- *)
(* C15                                                                     *)
(* ----------------------------------------------------------------------- *)

\* the call resolved a string that is one occurrence {{ path }} and nothing else
OneTokenCall ==
    /\ call.op = "resolveVariables"
    /\ call.config.t = "string"
    /\ call.config.v # <<>>
    /\ OccurrenceEnd(call.config.v, 1) = Len(call.config.v)

\* the segments of the path of a one-token call
CallSegments == SplitDots(Trim(SubSeq(call.config.v, 3, Len(call.config.v) - 2)), <<>>)

\* C15: a path whose final value is false, 0 or the empty string is
\* substituted, by "false", "0" and "" respectively, at any depth: only an
\* absent value leaves the occurrence as it is.
C15_FalsyValuesSubstituted ==
    OneTokenCall =>
        LET value == ContainerWalk(call.context, CallSegments)
        IN /\ value = Bool(FALSE) => call.result = Str(<<"f", "a", "l", "s", "e">>)
           /\ value = Num(0) => call.result = Str(<<"0">>)
           /\ value = Str(<<>>) => call.result = Str(<<>>)

\* C15 witness: a path of three segments whose final value is 0 was replaced by "0"
C15_Witness ==
    /\ OneTokenCall
    /\ Len(CallSegments) = 3
    /\ ContainerWalk(call.context, CallSegments) = Num(0)
    /\ call.result = Str(<<"0">>)

(* ----------------------------------------------------------------------- *)
(* C16                                                                     *)
(* ----------------------------------------------------------------------- *)

RECURSIVE StopsAtScalar(_, _)
\* the walk of the segments from current comes to a string, a number or a
\* boolean with segments left
StopsAtScalar(current, segs) ==
    /\ segs # <<>>
    /\ \/ current.t \in {"string", "number", "boolean"}
       \/ /\ IsContainer(current)
          /\ StopsAtScalar(GetProp(current, Head(segs)), Tail(segs))

\* C16: an occurrence whose walk comes to a string, a number or a boolean
\* before its last segment is left as it is: no segment is looked up on a scalar.
C16_NoLookupOnScalars ==
    (OneTokenCall /\ StopsAtScalar(call.context, CallSegments)) =>
        call.result = call.config

(* ----------------------------------------------------------------------- *)
(* C17                                                                     *)
(* ----------------------------------------------------------------------- *)

RECURSIVE SameShape(_, _)
\* y has the shape of x: a string for a string, an array of the same length
\* with members of the same shapes in the same places, an object of the same
\* keys in the same order with members of the same shapes, and x itself for
\* every other x
SameShape(x, y) ==
    CASE x.t = "string" -> y.t = "string"
      [] x.t = "array" ->
            /\ y.t = "array"
            /\ Len(y.v) = Len(x.v)
            /\ \A i \in 1..Len(x.v) : SameShape(x.v[i], y.v[i])
      [] x.t = "object" ->
            /\ y.t = "object"
            /\ y.k = x.k
            /\ Len(y.v) = Len(x.v)
            /\ \A i \in 1..Len(x.v) : SameShape(x.v[i], y.v[i])
      [] OTHER -> y = x

HasOpen(s) == \E p \in 1..(Len(s) - 1) : s[p] = "{" /\ s[p + 1] = "{"

RECURSIVE ContainsOpen(_)
\* a string of the value, at any depth, holds the text {{
ContainsOpen(x) ==
    CASE x.t = "string" -> HasOpen(x.v)
      [] x.t \in {"array", "object"} -> \E i \in 1..Len(x.v) : ContainsOpen(x.v[i])
      [] OTHER -> FALSE

\* C18: resolving a second time changes nothing, whenever the result of the
\* first pass holds no text {{.
C18_ResolveIdempotent ==
    (call.op = "resolveVariables" /\ ~ContainsOpen(call.result)) =>
        resolveVariables(call.result, call.context) = call.result

\* C18 witness: a token was replaced by a value that holds single braces
\* around the name of a key of the context, and the result holds no {{
C18_Witness ==
    /\ call.op = "resolveVariables"
    /\ call.context = CtxBraces
    /\ call.config = Str(Tok(<<"x">>))
    /\ call.result = Str(<<"{", "y", "}">>)
    /\ ~ContainsOpen(call.result)

(* ----------------------------------------------------------------------- *)
(* validateWorkflow                                                        *)
(* ----------------------------------------------------------------------- *)

S_actions == <<"a", "c", "t", "i", "o", "n", "s">>

S_type == <<"t", "y", "p", "e">>

S_config == <<"c", "o", "n", "f", "i", "g">>

S_must_have_id == <<"W", "o", "r", "k", "f", "l", "o", "w", " ", "m", "u", "s", "t", " ", "h", "a", "v", "e", " ", "a", "n", " ", "i", "d">>

S_must_have_name == <<"W", "o", "r", "k", "f", "l", "o", "w", " ", "m", "u", "s", "t", " ", "h", "a", "v", "e", " ", "a", " ", "n", "a", "m", "e">>

S_must_have_actions == <<"W", "o", "r", "k", "f", "l", "o", "w", " ", "m", "u", "s", "t", " ", "h", "a", "v", "e", " ", "a", "n", " ", "a", "c", "t", "i", "o", "n", "s", " ", "a", "r", "r", "a", "y">>

S_Action == <<"A", "c", "t", "i", "o", "n", " ">>

S_action_id == <<" ", "m", "u", "s", "t", " ", "h", "a", "v", "e", " ", "a", "n", " ", "i", "d">>

S_action_type == <<" ", "m", "u", "s", "t", " ", "h", "a", "v", "e", " ", "a", " ", "t", "y", "p", "e">>

S_action_config == <<" ", "m", "u", "s", "t", " ", "h", "a", "v", "e", " ", "c", "o", "n", "f", "i", "g">>

S_forEach_not_function == <<"w", "o", "r", "k", "f", "l", "o", "w", ".", "a", "c", "t", "i", "o", "n", "s", ".", "f", "o", "r", "E", "a", "c", "h", " ", "i", "s", " ", "n", "o", "t", " ", "a", " ", "f", "u", "n", "c", "t", "i", "o", "n">>

S_reading_id == <<" ", "(", "r", "e", "a", "d", "i", "n", "g", " ", "'", "i", "d", "'", ")">>

\* the errors pushed for action at index i (0-based), lines 224-226
ActionErrors(action, i) ==
    (IF ~Truthy(GetProp(action, S_id))
     THEN <<Str(S_Action \o Digits(i) \o S_action_id)>> ELSE <<>>)
    \o (IF ~Truthy(GetProp(action, S_type))
        THEN <<Str(S_Action \o Digits(i) \o S_action_type)>> ELSE <<>>)
    \o (IF ~Truthy(GetProp(action, S_config))
        THEN <<Str(S_Action \o Digits(i) \o S_action_config)>> ELSE <<>>)

RECURSIVE EachActionErrors(_, _)
\* the errors pushed by the forEach from position p (1-based) on
EachActionErrors(actions, p) ==
    IF p > Len(actions) THEN <<>>
    ELSE ActionErrors(actions[p], p - 1) \o EachActionErrors(actions, p + 1)

\* validateWorkflow(workflow): what it returns, or what it throws.  forEach is
\* a method of arrays only, and reading a member of null or undefined throws.
validateWorkflow(wf) ==
    LET actions == GetProp(wf, S_actions)
        errors ==
            (IF ~Truthy(GetProp(wf, S_id)) THEN <<Str(S_must_have_id)>> ELSE <<>>)
            \o (IF ~Truthy(GetProp(wf, S_name)) THEN <<Str(S_must_have_name)>> ELSE <<>>)
            \o (IF ~Truthy(actions) \/ actions.t # "array"
                THEN <<Str(S_must_have_actions)>> ELSE <<>>)
        Return(list) == [t |-> "return", valid |-> Bool(list = <<>>), errors |-> Arr(list)]
    IN IF ~Truthy(actions) THEN Return(errors)
       ELSE IF actions.t # "array"
       THEN [t |-> "throw", error |-> Error(Str(S_forEach_not_function))]
       ELSE IF \E p \in 1..Len(actions.v) : HasNoProperties(actions.v[p])
       THEN LET p == CHOOSE x \in 1..Len(actions.v) :
                        /\ HasNoProperties(actions.v[x])
                        /\ \A y \in 1..(x - 1) : ~HasNoProperties(actions.v[y])
            IN [t |-> "throw",
                error |-> Error(Str(S_cannot_read \o ToStr(actions.v[p]) \o S_reading_id))]
       ELSE Return(errors \o EachActionErrors(actions.v, 1))

\* a workflow definition has at most MaxValidated actions
MaxValidated == 2

RECURSIVE WithMembers(_, _)
\* the object of the given keys and values, without the keys whose value is undefined
WithMembers(keys, vals) ==
    IF keys = <<>> THEN EmptyObj
    ELSE LET rest == WithMembers(Tail(keys), Tail(vals))
         IN IF Head(vals) = Undefined THEN rest
            ELSE Obj(<<Head(keys)>> \o rest.k, <<Head(vals)>> \o rest.v)

\* the members of an actions array: actions with and without id and type, with
\* config absent, null, an object and the falsy scalars; and null
ValidatedActions ==
    {WithMembers(<<S_id, S_type, S_config>>, <<id, type, config>>) :
        id \in {Undefined, Str(<<"a">>)},
        type \in {Undefined, Str(S_http)},
        config \in {Undefined, Null, EmptyObj, Num(0), Bool(FALSE), Str(<<>>)}}
        \cup {Null}

\* the values of the actions member: absent, null, arrays of actions, and
\* values that are no arrays
ValidatedActionLists ==
    {Undefined, Null, EmptyObj, Str(<<"x">>), Num(1), Num(0)}
        \cup UNION {{Arr(a) : a \in [1..n -> ValidatedActions]} : n \in 0..MaxValidated}

\* the workflow definitions validateWorkflow is called with
ValidatedWorkflows ==
    {WithMembers(<<S_id, S_name, S_actions>>, <<id, name, actions>>) :
        id \in {Undefined, Str(<<>>), Str(<<"w">>)},
        name \in {Undefined, Str(<<>>), Str(<<"W">>)},
        actions \in ValidatedActionLists}

\* validateWorkflow(workflow) is called and returns or throws
Validate ==
    /\ call = NoCall
    /\ \E wf \in ValidatedWorkflows :
        call' = [op |-> "validateWorkflow", workflow |-> wf, result |-> validateWorkflow(wf)]
    /\ UNCHANGED <<executions, execution_steps, pc, workflow, triggerData, context,
                   executionLog, idx, stepDbId, resolvedConfig, stepResult, error,
                   returned, trace>>

NextValidate == Validate

SpecValidate == Init /\ [][NextValidate]_vars

(* ----------------------------------------------------------------------- *)
(* C19                                                                     *)
(* ----------------------------------------------------------------------- *)

\* a non-empty string
NonEmpty(x) == x.t = "string" /\ x.v # <<>>

\* the actions of a workflow definition, the empty list when it has no array of them
ActionsOf(wf) ==
    IF GetProp(wf, S_actions).t = "array" THEN GetProp(wf, S_actions).v ELSE <<>>

\* the messages of the checks a workflow definition violates: a non-empty id,
\* a non-empty name, an actions array, and for the action at position i
\* (0-based) a non-empty id, a non-empty type and a config that is not null
ViolatedChecks(wf) ==
    {m \in {Str(S_must_have_id)} : ~NonEmpty(GetProp(wf, S_id))}
    \cup {m \in {Str(S_must_have_name)} : ~NonEmpty(GetProp(wf, S_name))}
    \cup {m \in {Str(S_must_have_actions)} : GetProp(wf, S_actions).t # "array"}
    \cup UNION {
            {m \in {Str(S_Action \o Digits(p - 1) \o S_action_id)} :
                ~NonEmpty(GetProp(ActionsOf(wf)[p], S_id))}
            \cup {m \in {Str(S_Action \o Digits(p - 1) \o S_action_type)} :
                ~NonEmpty(GetProp(ActionsOf(wf)[p], S_type))}
            \cup {m \in {Str(S_Action \o Digits(p - 1) \o S_action_config)} :
                GetProp(ActionsOf(wf)[p], S_config) \in {Null, Undefined}}
          : p \in 1..Len(ActionsOf(wf))}

\* the call returned one message for each violated check and no other, and
\* valid tells whether the list is empty
ReturnsViolatedChecks ==
    /\ call.result.t = "return"
    /\ {call.result.errors.v[j] : j \in 1..Len(call.result.errors.v)}
            = ViolatedChecks(call.workflow)
    /\ Len(call.result.errors.v) = Cardinality(ViolatedChecks(call.workflow))
    /\ call.result.valid = Bool(call.result.errors.v = <<>>)

\* C19: validate evaluates every check and collects every failure: it returns
\* exactly one message for each violated check (workflow id, workflow name,
\* actions array, and per action its id, type and config) and no other
\* message, and valid is true exactly when the list is empty.
C19_AllChecksCollected ==
    call.op = "validateWorkflow" => ReturnsViolatedChecks

\* C19 holds of every workflow definition whose actions member is absent,
\* null or an array without null, and whose configs are absent, null or truthy
C19_ExceptFalsyConfigs ==
    (/\ call.op = "validateWorkflow"
     /\ GetProp(call.workflow, S_actions).t \in {"undefined", "null", "array"}
     /\ \A p \in 1..Len(ActionsOf(call.workflow)) :
            /\ ActionsOf(call.workflow)[p] # Null
            /\ GetProp(ActionsOf(call.workflow)[p], S_config)
                    \notin {Num(0), Bool(FALSE), Str(<<>>)})
        => ReturnsViolatedChecks

(* ----------------------------------------------------------------------- *)
(* C20                                                                     *)
(* ----------------------------------------------------------------------- *)

\* C20: validate reports "Action i must have config" exactly when the config
\* of action i is null or absent; a config of 0, false or the empty string
\* produces no config error.
C20_ConfigErrorIffNull ==
    (call.op = "validateWorkflow" /\ call.result.t = "return") =>
        \A p \in 1..Len(ActionsOf(call.workflow)) :
            (\E j \in 1..Len(call.result.errors.v) :
                call.result.errors.v[j] = Str(S_Action \o Digits(p - 1) \o S_action_config))
            <=> GetProp(ActionsOf(call.workflow)[p], S_config) \in {Null, Undefined}

(* ----------------------------------------------------------------------- *)
(* C21                                                                     *)
(* ----------------------------------------------------------------------- *)

\* C21: validate never raises.  For every workflow definition, one whose
\* actions member is present but no array and one whose actions array holds
\* null included, it returns {valid, errors}, and a definition without an
\* actions array gets the message of that defect in the list.
C21_ValidateNeverRaises ==
    call.op = "validateWorkflow" =>
        /\ call.result.t = "return"
        /\ GetProp(call.workflow, S_actions).t # "array" =>
                /\ call.result.valid = Bool(FALSE)
                /\ \E j \in 1..Len(call.result.errors.v) :
                        call.result.errors.v[j] = Str(S_must_have_actions)

\* validate returns for every workflow definition whose actions member is
\* absent, falsy, or an array without null
C21_ReturnsOnArrays ==
    (/\ call.op = "validateWorkflow"
     /\ \/ ~Truthy(GetProp(call.workflow, S_actions))
        \/ /\ GetProp(call.workflow, S_actions).t = "array"
           /\ \A p \in 1..Len(ActionsOf(call.workflow)) :
                    ActionsOf(call.workflow)[p] # Null)
        => call.result.t = "return"

(* ----------------------------------------------------------------------- *)
(* C22                                                                     *)
(* ----------------------------------------------------------------------- *)

\* step row j of invocation r holds the result of action j as its output, and
\* so does entry j of the log once it is pushed
OutputPersisted(r, j) ==
    LET row == StepRowsOf(r)[j]
        res == EventsOf(r, "return")[j].v
    IN /\ row.output_data = JSONstringify(res)
       /\ j <= Len(executionLog[r].v) =>
            row.output_data = JSONstringify(GetProp(executionLog[r].v[j], S_output))

\* C22: when a handler has returned, the step record is persisted as
\* completed with exactly the handler's result as its output, whatever the
\* result, falsy ones included, and the persisted output equals the output of
\* the step's log entry.
C22_OutputPersistedExactly ==
    \A r \in Started :
        \A j \in 1..Len(StepRowsOf(r)) :
            /\ CountBefore(r, "updateStep", j - 1, Len(trace[r]) + 1) > 0
                    /\ j <= Len(EventsOf(r, "return"))
                => StepRowsOf(r)[j].status = Str(S_completed)
            /\ StepRowsOf(r)[j].status = Str(S_completed) => OutputPersisted(r, j)

\* C22 holds of every result that is truthy
C22_TruthyOutputs ==
    \A r \in Started :
        \A j \in 1..Len(StepRowsOf(r)) :
            /\ CountBefore(r, "updateStep", j - 1, Len(trace[r]) + 1) > 0
                    /\ j <= Len(EventsOf(r, "return"))
                => StepRowsOf(r)[j].status = Str(S_completed)
            /\ (/\ StepRowsOf(r)[j].status = Str(S_completed)
                /\ Truthy(EventsOf(r, "return")[j].v))
                => OutputPersisted(r, j)

(* ----------------------------------------------------------------------- *)
(* C23                                                                     *)
(* ----------------------------------------------------------------------- *)

\* how far the code of execute is from its return within one turn of the loop
Distance(p) ==
    CASE p = "idle" -> 9
      [] p = "createExecution" -> 9
      [] p = "loop" -> 8
      [] p = "createExecutionStep" -> 7
      [] p = "handler" -> 6
      [] p = "updateStepCompleted" -> 5
      [] p = "innerCatch" -> 4
      [] p = "updateStepFailed" -> 3
      [] p = "outerCatch" -> 2
      [] p \in {"updateExecutionCompleted", "updateExecutionFailed"} -> 1
      [] OTHER -> 0

\* a measure of what invocation r has left to do: the actions not yet done,
\* then the distance within the turn
Rank(r) ==
    (IF pc[r] = "idle" THEN MaxActions + 1 ELSE Len(workflow[r].actions) - idx[r]) * 10
        + Distance(pc[r])

\* every step of an invocation lowers its measure, so it takes finitely many
C23_RankDecreases == [][Rank(1)' < Rank(1)]_vars

\* when execute has returned the run row is completed or failed
C23_RunRowClosed ==
    \A r \in Started :
        pc[r] = "returned" => RunRowOf(r).status \in {Str(S_completed), Str(S_failed)}

\* C23: every started run ends cleanly.  When execute has returned, the
\* persisted run status is completed or failed, never running, and no step
\* record of the run is left with status running.
C23_NothingLeftRunning ==
    \A r \in Started :
        pc[r] = "returned" =>
            /\ RunRowOf(r).status \in {Str(S_completed), Str(S_failed)}
            /\ \A j \in 1..Len(StepRowsOf(r)) : StepRowsOf(r)[j].status # Str(S_running)

(* ----------------------------------------------------------------------- *)
(* C24                                                                     *)
(* ----------------------------------------------------------------------- *)

\* action j (1-based) of invocation r is recorded as failed, in its step
\* record or in the log
RecordedFailed(r, j) ==
    \/ j <= Len(StepRowsOf(r)) /\ StepRowsOf(r)[j].status = Str(S_failed)
    \/ /\ executionLog[r] # Undefined
       /\ j <= Len(executionLog[r].v)
       /\ EntryStatus(executionLog[r].v[j]) = Str(S_failed)

\* the handler of action j (1-based) of invocation r returned a result
Returned(r, j) ==
    \E p \in 1..Len(trace[r]) : trace[r][p].e = "return" /\ trace[r][p].i = j - 1

\* C24: a step is recorded as failed, in its step record or in the log, only
\* if the action's handler lookup or handler invocation failed: an action
\* whose handler returned a result is never recorded as failed, and the
\* context of a run with a step recorded as failed holds no result of that step.
C24_FailedOnlyOnHandlerFailure ==
    \A r \in Started :
        \A j \in 1..Len(workflow[r].actions) :
            RecordedFailed(r, j) =>
                /\ FailedAt(r, j - 1)
                /\ ~Returned(r, j)
                /\ context[r] = ContextAfter(r, j - 1)

====
